---- MODULE Spec2Model ----
(***************************************************************************)
(* A model of dukebot: tools.py (reference-data loader, the three format   *)
(* resolvers, the four API clients) and agent.py (process_user_query).     *)
(*                                                                         *)
(* The program is single-threaded: pc is "start" before tools.py is        *)
(* imported, "ready" between calls, and "answered" or "raised" when a call *)
(* has returned or thrown.  Four specifications share the state:           *)
(*   SpecResolve  start-up and the resolvers, over the reference files;    *)
(*   SpecApi      start-up and the four API clients;                       *)
(*   SpecAgent    start-up and process_user_query;                         *)
(*   SpecSession  SpecAgent with callers that build and invoke agents.     *)
(*                                                                         *)
(* Text is modelled as a sequence of one-character strings, so that        *)
(* lower(), strip(), split(), replace(), the `in` substring test and       *)
(* urllib's quote() are computed character by character.                   *)
(***************************************************************************)
EXTENDS Integers, Sequences, FiniteSets, TLC

VARIABLES
    pc,               \* position of the single thread of control
    files,            \* the three reference files on disk: their lines, or Missing
    warned,           \* the "Warning: Could not load options file" line was printed
    valid_groups,     \* tools.valid_groups
    valid_categories, \* tools.valid_categories
    valid_subjects,   \* tools.valid_subjects
    call,             \* the tool call being served: its name and arguments
    result,           \* what the last call returned (or the exception it raised)
    http,             \* the GET issued by the last client call, and its response
    ncalls,           \* API client calls begun so far
    nsent,            \* HTTP requests sent so far
    nreached,         \* API client calls that got as far as their requests.get
    env_key,          \* the environment variable OPENAI_API_KEY
    agents,           \* the agents built so far: the chat history of each
    ninvoked,         \* calls of agent.invoke so far
    nqueries,         \* calls of process_user_query so far
    held,             \* the agents a caller of create_duke_agent holds on to
    log               \* the exchanges answered so far, each with its agent

\* The reference data, and the network side.
refs == <<files, warned, valid_groups, valid_categories, valid_subjects>>
net == <<http, ncalls, nsent, nreached>>
agt == <<env_key, agents, ninvoked, nqueries, held, log>>

vars == <<pc, refs, call, result, net, agt>>

-----------------------------------------------------------------------------
(* Bounds of the model. *)

\* Longest reference file, in lines (the resolvers keep 5 matches: 6 lines
\* are needed for a sixth match).
MaxLines == 6

\* Longest groups / categories argument of the events client.
MaxFacet == 2

\* Most elements of a JSON list in a curriculum response (the client keeps 5).
MaxCourses == 7

\* API client calls in one run.
MaxCalls == 2

\* process_user_query calls in one run.
MaxQueries == 2

\* Agents built plus invocations made, in a run where callers also hold
\* agents of their own.
MaxWork == 5

-----------------------------------------------------------------------------
(* Python's str operations, on sequences of characters. *)

Range(s) == {s[i] : i \in 1..Len(s)}

Min(S) == CHOOSE x \in S : \A y \in S : x <= y

\* str.lower(), on the letters the model uses.
LowerChar(c) ==
    CASE c = "A" -> "a"
      [] c = "B" -> "b"
      [] c = "L" -> "l"
      [] OTHER -> c

Lower(s) == [i \in 1..Len(s) |-> LowerChar(s[i])]

\* The characters str.strip() removes.
Whitespace == {" ", "\n", "\t"}

RECURSIVE LStrip(_)
LStrip(s) == IF s # <<>> /\ Head(s) \in Whitespace THEN LStrip(Tail(s)) ELSE s

RECURSIVE RStrip(_)
RStrip(s) ==
    IF s # <<>> /\ s[Len(s)] \in Whitespace
    THEN RStrip(SubSeq(s, 1, Len(s) - 1))
    ELSE s

\* str.strip()
Strip(s) == RStrip(LStrip(s))

\* The positions at which sub occurs in s.
Occurs(sub, s) ==
    {i \in 1..(Len(s) - Len(sub) + 1) : SubSeq(s, i, i + Len(sub) - 1) = sub}

\* `sub in s`
In(sub, s) == Occurs(sub, s) # {}

\* str.split(sep): cut at each occurrence of sep, left to right.
RECURSIVE Split(_, _)
Split(s, sep) ==
    IF ~In(sep, s)
    THEN <<s>>
    ELSE LET i == Min(Occurs(sep, s))
         IN  <<SubSeq(s, 1, i - 1)>> \o Split(SubSeq(s, i + Len(sep), Len(s)), sep)

\* str.replace(c, ''), for a one-character c.
Remove(s, c) == SelectSeq(s, LAMBDA x : x # c)

\* s[:n]
Take(s, n) == SubSeq(s, 1, IF Len(s) < n THEN Len(s) ELSE n)

\* All sequences over S of length at most n.
SeqsUpTo(S, n) == UNION {[1..k -> S] : k \in 0..n}

-----------------------------------------------------------------------------
(* The reference files. *)

\* A file on disk: the lines `for line in file` yields (line terminator
\* included), or no file at all.
File(lines) == [exists |-> TRUE, lines |-> lines]
Missing == [exists |-> FALSE, lines |-> <<>>]

Kinds == {"groups", "categories", "subjects"}

GroupLines    == { <<" ", "A", "b", "\n">>, <<"b", "\n">> }
CategoryLines == { <<"A", "b", " ", "\n">>, <<" ", "\n">> }
SubjectLines  == { <<"A", "-", "b", " ", "-", " ", "a", "\n">>,
                   <<" ", "b", " ", "-", " ", "A", "b", " ", "\n">>,
                   <<"a", "B", "\n">> }

LinePool(k) ==
    CASE k = "groups" -> GroupLines
      [] k = "categories" -> CategoryLines
      [] k = "subjects" -> SubjectLines

\* A file beside the one under study: absent, or holding one line.
SideLine(k) ==
    CASE k = "groups" -> <<" ", "A", "b", "\n">>
      [] k = "categories" -> <<"A", "b", " ", "\n">>
      [] k = "subjects" -> <<"A", "-", "b", " ", "-", " ", "a", "\n">>

SideFiles(k) == {Missing, File(<<SideLine(k)>>)}

Contents(k) == {Missing} \cup {File(ls) : ls \in SeqsUpTo(LinePool(k), MaxLines)}

\* One file takes every content up to MaxLines lines (or is absent); the
\* other two are absent or hold a single line.
InitFiles ==
    \E focus \in Kinds :
      \E big \in Contents(focus) :
        \E side \in [Kinds -> BOOLEAN] :
            files = [k \in Kinds |->
                        IF k = focus THEN big
                        ELSE IF side[k] THEN File(<<SideLine(k)>>) ELSE Missing]

\* load_options_from_file without the strip() (the mutant of C8).
load_options_from_file_NoStrip(file) == file.lines

\* tools.py, load_options_from_file
load_options_from_file(file) == [i \in 1..Len(file.lines) |-> Strip(file.lines[i])]

NoCall == [op |-> "none"]
NoResult == [none |-> TRUE]
NoHttp == [sent |-> FALSE, url |-> <<>>, status |-> 0, body |-> <<>>]

\* The state at import of tools.py, before the module-level load, given the
\* files on disk.
Start ==
    /\ pc = "start"
    /\ warned = FALSE
    /\ valid_groups = <<>>
    /\ valid_categories = <<>>
    /\ valid_subjects = <<>>
    /\ call = NoCall
    /\ result = NoResult
    /\ http = NoHttp
    /\ ncalls = 0
    /\ nsent = 0
    /\ nreached = 0
    /\ agents = <<>>
    /\ ninvoked = 0
    /\ nqueries = 0
    /\ held = {}
    /\ log = <<>>

\* OPENAI_API_KEY set to a key.
KeySet == env_key = [set |-> TRUE, value |-> <<"s", "k">>]

Init == InitFiles /\ Start /\ KeySet

\* The except clause resetting only the lists whose file is missing, so a
\* list loaded before the failure survives (the mutant of C9).
Load_KeepLoaded ==
    /\ pc = "start"
    /\ warned' = (\E k \in Kinds : ~files[k].exists)
    /\ valid_groups' = load_options_from_file(files["groups"])
    /\ valid_categories' = load_options_from_file(files["categories"])
    /\ valid_subjects' = load_options_from_file(files["subjects"])
    /\ pc' = "ready"
    /\ UNCHANGED <<files, call, result, net, agt>>

\* tools.py, the module-level try/except around the three loads
Load ==
    /\ pc = "start"
    /\ IF \E k \in Kinds : ~files[k].exists
       THEN /\ warned' = TRUE
            /\ valid_groups' = <<>>
            /\ valid_categories' = <<>>
            /\ valid_subjects' = <<>>
       ELSE /\ warned' = FALSE
            /\ valid_groups' = load_options_from_file(files["groups"])
            /\ valid_categories' = load_options_from_file(files["categories"])
            /\ valid_subjects' = load_options_from_file(files["subjects"])
    /\ pc' = "ready"
    /\ UNCHANGED <<files, call, result, net, agt>>

-----------------------------------------------------------------------------
(* The format resolvers.  json.dumps of the result is modelled by the       *)
(* dictionary it serialises: {"query": ..., "matches": [...]}.             *)

\* " - ", the separator of a subject line
Sep == <<" ", "-", " ">>

\* tools.py, search_subject_by_code: the test of the first loop
CodeMatch(query, subject) ==
    LET parts == Split(subject, Sep)
    IN  /\ Len(parts) >= 2
        /\ LET code == Strip(parts[1])
           IN  \/ In(Lower(query), Lower(code))
               \/ In(Remove(Lower(query), " "),
                     Remove(Remove(Lower(code), "-"), " "))

\* tools.py, search_subject_by_code: the test of the second loop
NameMatch(query, subject) ==
    LET parts == Split(subject, Sep)
    IN  /\ Len(parts) >= 2
        /\ LET name == Strip(parts[2])
           IN  In(Lower(query), Lower(name))

code_matches(query) == SelectSeq(valid_subjects, LAMBDA s : CodeMatch(query, s))

name_matches(query) == SelectSeq(valid_subjects, LAMBDA s : NameMatch(query, s))

all_matches(query) ==
    code_matches(query) \o
        SelectSeq(name_matches(query), LAMBDA m : m \notin Range(code_matches(query)))

search_subject_by_code(query) ==
    [query |-> query, matches |-> Take(all_matches(query), 5)]

\* search_group_format comparing the query as typed (the mutant of C1).
search_group_format_CaseSensitive(query) ==
    [query |-> query,
     matches |-> Take(SelectSeq(valid_groups, LAMBDA g : In(query, Lower(g))), 5)]

search_group_format(query) ==
    [query |-> query,
     matches |-> Take(SelectSeq(valid_groups, LAMBDA g : In(Lower(query), Lower(g))), 5)]

\* search_category_format without the [:5] slice (the mutant of C2).
search_category_format_Unlimited(query) ==
    [query |-> query,
     matches |-> SelectSeq(valid_categories, LAMBDA c : In(Lower(query), Lower(c)))]

search_category_format(query) ==
    [query |-> query,
     matches |-> Take(SelectSeq(valid_categories, LAMBDA c : In(Lower(query), Lower(c))), 5)]

\* The queries put to the resolvers.
Queries == { <<>>, <<"a">>, <<"B">>, <<"a", "B">>, <<" ">>, <<"b", "a">> }

SearchSubject ==
    /\ pc = "ready"
    /\ \E q \in Queries :
          /\ call' = [op |-> "search_subject_by_code", query |-> q]
          /\ result' = search_subject_by_code(q)
    /\ pc' = "answered"
    /\ UNCHANGED <<refs, net, agt>>

SearchGroup ==
    /\ pc = "ready"
    /\ \E q \in Queries :
          /\ call' = [op |-> "search_group_format", query |-> q]
          /\ result' = search_group_format(q)
    /\ pc' = "answered"
    /\ UNCHANGED <<refs, net, agt>>

SearchCategory ==
    /\ pc = "ready"
    /\ \E q \in Queries :
          /\ call' = [op |-> "search_category_format", query |-> q]
          /\ result' = search_category_format(q)
    /\ pc' = "answered"
    /\ UNCHANGED <<refs, net, agt>>

\* The tool has returned; the caller is free to make its next call.
Return ==
    /\ pc \in {"answered", "raised"}
    /\ pc' = "ready"
    /\ call' = NoCall
    /\ result' = NoResult
    /\ http' = NoHttp
    /\ UNCHANGED <<refs, ncalls, nsent, nreached, agt>>

NextResolve ==
    \/ Load
    \/ SearchSubject
    \/ SearchGroup
    \/ SearchCategory
    \/ Return

\* Start-up and the three resolvers, over every content of the reference files.
SpecResolve == Init /\ [][NextResolve]_vars

-----------------------------------------------------------------------------
(* Text helpers of the API clients. *)

RECURSIVE Flatten(_)
Flatten(ss) == IF ss = <<>> THEN <<>> ELSE Head(ss) \o Flatten(Tail(ss))

DigitChar(d) == <<"0", "1", "2", "3", "4", "5", "6", "7", "8", "9">>[d + 1]

\* str(n) of a non-negative int, as an f-string formats it.
RECURSIVE Digits(_)
Digits(n) == IF n < 10 THEN <<DigitChar(n)>> ELSE Digits(n \div 10) \o <<DigitChar(n % 10)>>

\* The characters urllib.parse.quote never escapes (of those the model uses,
\* beside letters and digits).
AlwaysSafe == {"_", ".", "-", "~"}

\* The characters quote(s, safe="") escapes, with their %XX form.
Escapes ==
    [c \in {" ", "#", "%", "&", "+", "/", "=", "?", "[", "]"} |->
        CASE c = " " -> <<"%", "2", "0">>
          [] c = "#" -> <<"%", "2", "3">>
          [] c = "%" -> <<"%", "2", "5">>
          [] c = "&" -> <<"%", "2", "6">>
          [] c = "+" -> <<"%", "2", "B">>
          [] c = "/" -> <<"%", "2", "F">>
          [] c = "=" -> <<"%", "3", "D">>
          [] c = "?" -> <<"%", "3", "F">>
          [] c = "[" -> <<"%", "5", "B">>
          [] c = "]" -> <<"%", "5", "D">>]

\* urllib.parse.quote(s, safe="")
quote(s) ==
    Flatten([i \in 1..Len(s) |->
                IF s[i] \in DOMAIN Escapes THEN Escapes[s[i]] ELSE <<s[i]>>])

\* The HTTP response requests.get returns: any status, any body.
Statuses == {200, 204, 404}

FailedPrefix ==
    <<"F", "a", "i", "l", "e", "d", " ", "t", "o", " ", "f", "e", "t", "c",
      "h", " ", "d", "a", "t", "a", ":", " ">>

\* f"Failed to fetch data: {response.status_code}"
Failed(status) == FailedPrefix \o Digits(status)

-----------------------------------------------------------------------------
(* get_events_from_duke_api *)

All == <<"A", "l", "l">>

S_rss == <<"r", "s", "s">>
S_js == <<"j", "s">>
S_ics == <<"i", "c", "s">>
S_csv == <<"c", "s", "v">>
S_json == <<"j", "s", "o", "n">>

S_feed_simple ==
    <<"f", "e", "e", "d", "_", "t", "y", "p", "e", "=", "s", "i", "m", "p",
      "l", "e">>

S_calendar ==
    <<"h", "t", "t", "p", "s", ":", "/", "/", "c", "a", "l", "e", "n", "d",
      "a", "r", ".", "d", "u", "k", "e", ".", "e", "d", "u", "/", "e", "v",
      "e", "n", "t", "s", "/", "i", "n", "d", "e", "x", ".">>

S_future_days ==
    <<"&", "f", "u", "t", "u", "r", "e", "_", "d", "a", "y", "s", "=">>

S_gfu == <<"&", "g", "f", "u", "[", "]", "=">>
S_gf  == <<"&", "g", "f", "[", "]", "=">>
S_cfu == <<"&", "c", "f", "u", "[", "]", "=">>
S_cf  == <<"&", "c", "f", "[", "]", "=">>

\* for x in xs: url += key + quote(x, safe="")
RECURSIVE Params(_, _)
Params(key, xs) ==
    IF xs = <<>> THEN <<>> ELSE key \o quote(Head(xs)) \o Params(key, Tail(xs))

\* The OR branch reading groups[0] as the AND branch does, so that an empty
\* list raises under either (the mutant of C13).
GroupRaises_AlsoOr(groups, filter_method_group) ==
    /\ All \notin Range(groups)
    /\ groups = <<>>

\* tools.py lines 66-79.  The AND branch reads groups[0], which raises
\* IndexError on an empty list.
GroupRaises(groups, filter_method_group) ==
    /\ ~filter_method_group
    /\ All \notin Range(groups)
    /\ groups = <<>>

\* group_url testing groups == ['All'] where the code tests 'All' in groups
\* (the mutant of C4).
group_url_OnlyAll(groups, filter_method_group) ==
    IF groups = <<All>>
    THEN <<>>
    ELSE Params(IF filter_method_group THEN S_gfu ELSE S_gf, groups)

group_url(groups, filter_method_group) ==
    IF filter_method_group
    THEN IF All \in Range(groups) THEN <<>> ELSE Params(S_gfu, groups)
    ELSE IF All \in Range(groups)
         THEN <<>>
         ELSE S_gf \o quote(groups[1]) \o Params(S_gf, Tail(groups))

\* tools.py lines 81-94
category_url(categories, filter_method_category) ==
    IF filter_method_category
    THEN IF All \in Range(categories) THEN <<>> ELSE Params(S_cfu, categories)
    ELSE IF All \in Range(categories) THEN <<>> ELSE Params(S_cf, categories)

\* tools.py lines 60-64
feed_type_url(feed_type) ==
    IF feed_type \notin {S_rss, S_js, S_ics, S_csv} THEN S_feed_simple ELSE <<>>

\* tools.py line 96
events_url(feed_type, future_days, groups, categories, filter_method_group, filter_method_category) ==
    S_calendar \o feed_type \o <<"?">>
        \o category_url(categories, filter_method_category)
        \o group_url(groups, filter_method_group)
        \o S_future_days \o Digits(future_days)
        \o <<"&">> \o feed_type_url(feed_type)

\* The status test as `response.ok` where the code has == 200 (the mutant
\* of C6).
text_or_failed_AnyOk(status, body) == IF status < 300 THEN body ELSE Failed(status)

\* tools.py lines 100-103 (also 152-155 and 174-177)
text_or_failed(status, body) == IF status = 200 THEN body ELSE Failed(status)

\* The arguments given to the events client.
FeedTypes == {S_json, S_rss}
FutureDays == {45}
FacetNames == { All,
                <<"a", "l", "l">>,
                <<"+", "D", " ", "&", "g", "f", "[", "]", "=", "x">> }
FacetLists == SeqsUpTo(FacetNames, MaxFacet)

\* A client that sends its GET again when the response is not a 200 or does
\* not parse (the mutant of C12).
gets_issued_Retry(status, parsed) == IF status = 200 /\ parsed THEN 1 ELSE 2

\* tools.py lines 98, 114, 150, 172: the requests.get calls a client executes
\* once it is at its request step.  Each client has one requests.get
\* statement, in no loop, and every path after it is a return.
gets_issued(status, parsed) == 1

\* The bodies a server sends to the events, course-detail and people clients.
PlainBodies == { <<"[", "]">>, <<"<", "h", "t", "m", "l", ">">> }

\* One call of get_events_from_duke_api, with the response the server gives.
GetEvents ==
    /\ pc = "ready"
    /\ ncalls < MaxCalls
    /\ ncalls' = ncalls + 1
    /\ \E feed_type \in FeedTypes, future_days \in FutureDays,
          groups \in FacetLists, categories \in FacetLists,
          filter_method_group \in BOOLEAN, filter_method_category \in BOOLEAN :
          /\ call' = [op |-> "get_events_from_duke_api",
                      feed_type |-> feed_type, future_days |-> future_days,
                      groups |-> groups, categories |-> categories,
                      filter_method_group |-> filter_method_group,
                      filter_method_category |-> filter_method_category]
          /\ IF GroupRaises(groups, filter_method_group)
             THEN /\ pc' = "raised"
                  /\ result' = [exception |-> "IndexError"]
                  /\ http' = NoHttp
                  /\ nsent' = nsent
                  /\ nreached' = nreached
             ELSE \E status \in Statuses, body \in PlainBodies :
                  /\ http' = [sent |-> TRUE,
                              url |-> events_url(feed_type, future_days, groups,
                                                 categories, filter_method_group,
                                                 filter_method_category),
                              status |-> status, body |-> body]
                  /\ nreached' = nreached + 1
                  /\ nsent' = nsent + gets_issued(status, TRUE)
                  /\ result' = text_or_failed(status, body)
                  /\ pc' = "answered"
    /\ UNCHANGED <<refs, agt>>

-----------------------------------------------------------------------------
(* json.loads and json.dumps, on the texts the model uses: numbers written   *)
(* with the digits 1-9, the empty object {}, and lists of values.  Any other *)
(* text over JsonChars is a JSONDecodeError, as it is for Python.            *)

JsonChars == {"[", "]", ",", "{", "}", " ", "<", "1", "2"}
JsonDigits == {"1", "2", "3", "4", "5", "6", "7", "8", "9"}
JsonSpace == {" ", "\n", "\t", "\r"}

JNum(text) == [t |-> "num", text |-> text, items |-> <<>>]
JObj == [t |-> "obj", text |-> <<>>, items |-> <<>>]
JList(items) == [t |-> "list", text |-> <<>>, items |-> items]

ParseError == [ok |-> FALSE, value |-> JObj, rest |-> <<>>]
Parsed(v, rest) == [ok |-> TRUE, value |-> v, rest |-> rest]

RECURSIVE SkipSpace(_)
SkipSpace(s) == IF s # <<>> /\ Head(s) \in JsonSpace THEN SkipSpace(Tail(s)) ELSE s

\* The longest run of digits at the front of s.
RECURSIVE DigitRun(_)
DigitRun(s) ==
    IF s # <<>> /\ Head(s) \in JsonDigits THEN <<Head(s)>> \o DigitRun(Tail(s)) ELSE <<>>

\* One JSON value at the front of s (no leading space), and what follows it.
RECURSIVE ParseValue(_)
RECURSIVE ParseItems(_, _)
ParseValue(s) ==
    IF s = <<>> THEN ParseError
    ELSE IF Head(s) \in JsonDigits
    THEN LET run == DigitRun(s)
         IN  Parsed(JNum(run), SubSeq(s, Len(run) + 1, Len(s)))
    ELSE IF Head(s) = "{"
    THEN LET r == SkipSpace(Tail(s))
         IN  IF r # <<>> /\ Head(r) = "}" THEN Parsed(JObj, Tail(r)) ELSE ParseError
    ELSE IF Head(s) = "["
    THEN LET r == SkipSpace(Tail(s))
         IN  IF r # <<>> /\ Head(r) = "]"
             THEN Parsed(JList(<<>>), Tail(r))
             ELSE ParseItems(r, <<>>)
    ELSE ParseError

\* The items of a list after its "[" (or after a ","), up to its "]".
ParseItems(s, done) ==
    LET v == ParseValue(s)
    IN  IF ~v.ok THEN ParseError
        ELSE LET r == SkipSpace(v.rest)
                 items == Append(done, v.value)
             IN  IF r = <<>> THEN ParseError
                 ELSE IF Head(r) = "]" THEN Parsed(JList(items), Tail(r))
                 ELSE IF Head(r) = "," THEN ParseItems(SkipSpace(Tail(r)), items)
                 ELSE ParseError

\* json.loads(text): ok is FALSE where Python raises JSONDecodeError.
loads(text) ==
    LET v == ParseValue(SkipSpace(text))
    IN  IF v.ok /\ SkipSpace(v.rest) = <<>> THEN v ELSE ParseError

\* json.dumps(value), with its default ", " item separator.
RECURSIVE dumps(_)
RECURSIVE DumpItems(_)
dumps(v) ==
    IF v.t = "num" THEN v.text
    ELSE IF v.t = "obj" THEN <<"{", "}">>
    ELSE <<"[">> \o DumpItems(v.items) \o <<"]">>

DumpItems(items) ==
    IF items = <<>> THEN <<>>
    ELSE IF Len(items) = 1 THEN dumps(items[1])
    ELSE dumps(items[1]) \o <<",", " ">> \o DumpItems(Tail(items))

-----------------------------------------------------------------------------
(* get_curriculum_with_subject_from_duke_api, *)
(* get_detailed_course_information_from_duke_api, *)
(* get_people_information_from_duke_api *)

S_subject_url ==
    <<"h", "t", "t", "p", "s", ":", "/", "/", "s", "t", "r", "e", "a", "m",
      "e", "r", ".", "o", "i", "t", ".", "d", "u", "k", "e", ".", "e", "d",
      "u", "/", "c", "u", "r", "r", "i", "c", "u", "l", "u", "m", "/", "c",
      "o", "u", "r", "s", "e", "s", "/", "s", "u", "b", "j", "e", "c", "t",
      "/">>

S_token ==
    <<"?", "a", "c", "c", "e", "s", "s", "_", "t", "o", "k", "e", "n", "=",
      "1", "9", "d", "3", "6", "3", "6", "f", "7", "1", "c", "1", "5", "2",
      "d", "d", "1", "3", "8", "4", "0", "7", "2", "4", "a", "8", "a", "4",
      "8", "0", "7", "4">>

S_crse_id ==
    <<"h", "t", "t", "p", "s", ":", "/", "/", "s", "t", "r", "e", "a", "m",
      "e", "r", ".", "o", "i", "t", ".", "d", "u", "k", "e", ".", "e", "d",
      "u", "/", "c", "u", "r", "r", "i", "c", "u", "l", "u", "m", "/", "c",
      "o", "u", "r", "s", "e", "s", "/", "c", "r", "s", "e", "_", "i", "d",
      "/">>

S_crse_offer_nbr ==
    <<"/", "c", "r", "s", "e", "_", "o", "f", "f", "e", "r", "_", "n", "b",
      "r", "/">>

S_people ==
    <<"h", "t", "t", "p", "s", ":", "/", "/", "s", "t", "r", "e", "a", "m",
      "e", "r", ".", "o", "i", "t", ".", "d", "u", "k", "e", ".", "e", "d",
      "u", "/", "l", "d", "a", "p", "/", "p", "e", "o", "p", "l", "e", "?",
      "q", "=">>

S_amp_token ==
    <<"&", "a", "c", "c", "e", "s", "s", "_", "t", "o", "k", "e", "n", "=",
      "1", "9", "d", "3", "6", "3", "6", "f", "7", "1", "c", "1", "5", "2",
      "d", "d", "1", "3", "8", "4", "0", "7", "2", "4", "a", "8", "a", "4",
      "8", "0", "7", "4">>

S_parse_error ==
    <<"E", "r", "r", "o", "r", ":", " ", "C", "o", "u", "l", "d", " ", "n",
      "o", "t", " ", "p", "a", "r", "s", "e", " ", "A", "P", "I", " ", "r",
      "e", "s", "p", "o", "n", "s", "e">>

S_courses_key ==
    <<"{", "\"", "c", "o", "u", "r", "s", "e", "s", "\"", ":", " ">>

S_note_key ==
    <<",", " ", "\"", "n", "o", "t", "e", "\"", ":", " ", "\"", "S", "h",
      "o", "w", "i", "n", "g", " ", "5", " ", "o", "u", "t", " ", "o", "f",
      " ">>

S_note_end ==
    <<" ", "c", "o", "u", "r", "s", "e", "s", ".", " ", "U", "s", "e", " ",
      "m", "o", "r", "e", " ", "s", "p", "e", "c", "i", "f", "i", "c", " ",
      "q", "u", "e", "r", "i", "e", "s", " ", "t", "o", " ", "r", "e", "f",
      "i", "n", "e", " ", "r", "e", "s", "u", "l", "t", "s", ".", "\"", "}">>

\* tools.py lines 111-112
curriculum_url(subject) == S_subject_url \o quote(subject) \o S_token

\* tools.py lines 125-129: json.dumps({"courses": data[:5], "note": f"..."})
limited_response(data) ==
    S_courses_key \o dumps(JList(Take(data.items, 5)))
        \o S_note_key \o Digits(Len(data.items)) \o S_note_end

\* curriculum_result with len(data) >= 5 where the code has > 5 (the mutant
\* of C7).
curriculum_result_FromFive(status, body) ==
    IF status = 200
    THEN LET data == loads(body)
         IN  IF ~data.ok THEN S_parse_error
             ELSE IF data.value.t = "list" /\ Len(data.value.items) >= 5
             THEN limited_response(data.value)
             ELSE body
    ELSE Failed(status)

\* tools.py lines 116-135
curriculum_result(status, body) ==
    IF status = 200
    THEN LET data == loads(body)
         IN  IF ~data.ok THEN S_parse_error
             ELSE IF data.value.t = "list" /\ Len(data.value.items) > 5
             THEN limited_response(data.value)
             ELSE body
    ELSE Failed(status)

\* tools.py line 149: the two arguments go into the URL as given
course_url(course_id, course_offer_number) ==
    S_crse_id \o course_id \o S_crse_offer_nbr \o course_offer_number \o S_token

\* tools.py lines 168-170
people_url(name) == S_people \o quote(name) \o S_amp_token

\* The text arguments given to the three clients.
TextArgs == { <<"A", "I", "P", "I">>,
              <<"a", " ", "b">>,
              <<"1", "/", "2", "?", "x", "=", "&", "#">> }

\* The texts of a JSON list, as a server writes it (no spaces).
RECURSIVE JoinComma(_)
JoinComma(ts) ==
    IF ts = <<>> THEN <<>>
    ELSE IF Len(ts) = 1 THEN ts[1]
    ELSE ts[1] \o <<",">> \o JoinComma(Tail(ts))

CourseTexts == { <<"1">>, <<"{", "}">> }

ListBodies == { <<"[">> \o JoinComma(ts) \o <<"]">> : ts \in SeqsUpTo(CourseTexts, MaxCourses) }

\* Bodies that are no plain list: empty, a number, an object, HTML, a cut-off
\* list, a list with a stray bracket, a list with a stray comma, a spaced
\* list of 6, a list of one list of 6.
OtherBodies ==
    { <<>>,
      <<"1", "2">>,
      <<"{", " ", "}">>,
      <<"<">>,
      <<"[", "1", ",">>,
      <<"[", "1", "]", "]">>,
      <<"[", "1", ",", "]">>,
      <<" ", "[", "1", ",", " ", "2", ",", "1", ",", "1", ",", "1", ",", "1", "]", " ">>,
      <<"[", "[", "1", ",", "1", ",", "1", ",", "1", ",", "1", ",", "1", "]", "]">> }

CurriculumBodies == ListBodies \cup OtherBodies

\* One call of get_curriculum_with_subject_from_duke_api.
GetCurriculum ==
    /\ pc = "ready"
    /\ ncalls < MaxCalls
    /\ ncalls' = ncalls + 1
    /\ \E subject \in TextArgs, status \in Statuses, body \in CurriculumBodies :
          /\ call' = [op |-> "get_curriculum_with_subject_from_duke_api",
                      subject |-> subject]
          /\ http' = [sent |-> TRUE, url |-> curriculum_url(subject),
                      status |-> status, body |-> body]
          /\ result' = curriculum_result(status, body)
          /\ nsent' = nsent + gets_issued(status, loads(body).ok)
    /\ nreached' = nreached + 1
    /\ pc' = "answered"
    /\ UNCHANGED <<refs, agt>>

\* One call of get_detailed_course_information_from_duke_api.
GetCourse ==
    /\ pc = "ready"
    /\ ncalls < MaxCalls
    /\ ncalls' = ncalls + 1
    /\ \E course_id \in TextArgs, course_offer_number \in TextArgs,
          status \in Statuses, body \in PlainBodies :
          /\ call' = [op |-> "get_detailed_course_information_from_duke_api",
                      course_id |-> course_id,
                      course_offer_number |-> course_offer_number]
          /\ http' = [sent |-> TRUE, url |-> course_url(course_id, course_offer_number),
                      status |-> status, body |-> body]
          /\ result' = text_or_failed(status, body)
          /\ nsent' = nsent + gets_issued(status, TRUE)
    /\ nreached' = nreached + 1
    /\ pc' = "answered"
    /\ UNCHANGED <<refs, agt>>

\* One call of get_people_information_from_duke_api.
GetPeople ==
    /\ pc = "ready"
    /\ ncalls < MaxCalls
    /\ ncalls' = ncalls + 1
    /\ \E name \in TextArgs, status \in Statuses, body \in PlainBodies :
          /\ call' = [op |-> "get_people_information_from_duke_api", name |-> name]
          /\ http' = [sent |-> TRUE, url |-> people_url(name),
                      status |-> status, body |-> body]
          /\ result' = text_or_failed(status, body)
          /\ nsent' = nsent + gets_issued(status, TRUE)
    /\ nreached' = nreached + 1
    /\ pc' = "answered"
    /\ UNCHANGED <<refs, agt>>

\* The three reference files present, one line each.
InitApi ==
    /\ files = [k \in Kinds |-> File(<<SideLine(k)>>)]
    /\ Start
    /\ KeySet

NextApi ==
    \/ Load
    \/ GetEvents
    \/ GetCurriculum
    \/ GetCourse
    \/ GetPeople
    \/ Return

\* Start-up and the four API clients, over every argument and every response.
SpecApi == InitApi /\ [][NextApi]_vars

-----------------------------------------------------------------------------
(* agent.py: create_duke_agent and process_user_query.  The agent framework *)
(* and the hosted model are outside the repository: what they do (fail with *)
(* some exception, or answer) is chosen freely at each call.                *)

S_key_not_found ==
    <<"O", "P", "E", "N", "A", "I", "_", "A", "P", "I", "_", "K", "E", "Y",
      " ", "n", "o", "t", " ", "f", "o", "u", "n", "d", " ", "i", "n", " ",
      "e", "n", "v", "i", "r", "o", "n", "m", "e", "n", "t", " ", "v", "a",
      "r", "i", "a", "b", "l", "e", "s">>

S_error_occurred ==
    <<"A", "n", " ", "e", "r", "r", "o", "r", " ", "o", "c", "c", "u", "r",
      "r", "e", "d", ":", " ">>

S_could_not_process ==
    <<"I", " ", "c", "o", "u", "l", "d", "n", "'", "t", " ", "p", "r", "o",
      "c", "e", "s", "s", " ", "y", "o", "u", "r", " ", "r", "e", "q", "u",
      "e", "s", "t", " ", "a", "t", " ", "t", "h", "i", "s", " ", "t", "i",
      "m", "e", ".">>

\* The values of OPENAI_API_KEY: unset, set to "", set to a key.
KeyValues == { [set |-> FALSE, value |-> <<>>],
               [set |-> TRUE, value |-> <<>>],
               [set |-> TRUE, value |-> <<"s", "k">>] }

\* agent.py line 41: `not openai_api_key` (None or the empty string)
KeyMissing(key) == ~key.set \/ key.value = <<>>

\* An exception: its class and str(e).
Exc(class, message) == [class |-> class, message |-> message]

\* The handler as `except ValueError` (the mutant of C10).
Caught_ValueErrorOnly(class) == class = "ValueError"

\* agent.py line 223: `except Exception` catches every class the model uses.
Caught(class) == class \in {"ValueError", "RuntimeError", "KeyError"}

\* What the framework may do when the agent is built or invoked.
ErrorClasses == {"RuntimeError", "KeyError"}
ErrorMessages == { <<>>, <<"t", "i", "m", "e", "o", "u", "t">> }
Faults == {Exc(c, m) : c \in ErrorClasses, m \in ErrorMessages}
NoFault == Exc("none", <<>>)

\* The response of agent.invoke: a dict with or without "output".
Outputs == { <<"h", "i">>, <<>> }
Responses == {[has_output |-> TRUE, output |-> o] : o \in Outputs}
                \cup {[has_output |-> FALSE, output |-> <<>>]}

UserQueries == { <<"q", "1">>, <<"q", "2">> }

\* agent.py line 222: response.get("output", "I couldn't process ...")
get_output(response) ==
    IF response.has_output THEN response.output ELSE S_could_not_process

\* agent.py lines 223-225: the handler's return value
error_string(e) == S_error_occurred \o e.message

\* A memory object shared by every agent the module builds, so that a new
\* agent starts from the history of the one built before it (the mutant of
\* C14).
new_memory_Shared(built) == IF built = <<>> THEN <<>> ELSE built[Len(built)]

\* agent.py line 155: every call of create_duke_agent makes its own
\* ConversationBufferMemory, which starts with no messages, whatever agents
\* were built before.
new_memory(built) == <<>>

\* The memory after an answered invocation: the exchange is added at the
\* end (the agent is given memory=memory on line 203).
save_context(memory, input, output) ==
    Append(memory, [input |-> input, output |-> output])

\* One call of process_user_query(query).  building and invoking are the
\* faults (or NoFault) of create_duke_agent's framework calls and of
\* duke_agent.invoke; response is what invoke returns when it does.
process_user_query(query, building, invoking, response) ==
    /\ nqueries' = nqueries + 1
    /\ held' = held
    /\ LET raised ==
              IF KeyMissing(env_key) THEN Exc("ValueError", S_key_not_found)
              ELSE IF building # NoFault THEN building
              ELSE IF invoking # NoFault THEN invoking
              ELSE NoFault
           built == ~KeyMissing(env_key) /\ building = NoFault
           invoked == built
           answered == built /\ invoking = NoFault
           memory == new_memory(agents)
       IN  /\ call' = [op |-> "process_user_query", query |-> query,
                       building |-> building, invoking |-> invoking,
                       agent |-> IF built THEN Len(agents) + 1 ELSE 0,
                       chat_history |-> IF invoked THEN memory ELSE <<>>]
           /\ agents' = IF built
                        THEN Append(agents,
                                    IF answered
                                    THEN save_context(memory, query,
                                                      get_output(response))
                                    ELSE memory)
                        ELSE agents
           /\ log' = IF answered
                     THEN Append(log, [agent |-> Len(agents) + 1, input |-> query,
                                       output |-> get_output(response)])
                     ELSE log
           /\ ninvoked' = IF invoked THEN ninvoked + 1 ELSE ninvoked
           /\ IF raised = NoFault
              THEN /\ result' = get_output(response)
                   /\ pc' = "answered"
              ELSE IF Caught(raised.class)
              THEN /\ result' = error_string(raised)
                   /\ pc' = "answered"
              ELSE /\ result' = [exception |-> raised.class]
                   /\ pc' = "raised"

ProcessUserQuery ==
    /\ pc = "ready"
    /\ nqueries < MaxQueries
    /\ \E query \in UserQueries, building \in Faults \cup {NoFault},
          invoking \in Faults \cup {NoFault}, response \in Responses :
          process_user_query(query, building, invoking, response)
    /\ UNCHANGED <<refs, net, env_key>>

\* The three reference files present, any value of OPENAI_API_KEY.
InitAgent ==
    /\ files = [k \in Kinds |-> File(<<SideLine(k)>>)]
    /\ Start
    /\ env_key \in KeyValues

NextAgent ==
    \/ Load
    \/ ProcessUserQuery
    \/ Return

\* Start-up and a run of process_user_query calls.
SpecAgent == InitAgent /\ [][NextAgent]_vars

\* The agents built and the invocations made so far.
Work == Len(agents) + ninvoked

\* One call of create_duke_agent() by a caller that keeps the agent it gets
\* (agent.py lines 29-210).  Nothing catches here: the ValueError of the
\* missing key and a fault of the framework reach the caller.
CreateAgent ==
    /\ pc = "ready"
    /\ Work < MaxWork
    /\ \E building \in Faults \cup {NoFault} :
          /\ call' = [op |-> "create_duke_agent", building |-> building]
          /\ IF KeyMissing(env_key)
             THEN /\ result' = [exception |-> "ValueError"]
                  /\ pc' = "raised"
                  /\ UNCHANGED <<agents, held>>
             ELSE IF building # NoFault
             THEN /\ result' = [exception |-> building.class]
                  /\ pc' = "raised"
                  /\ UNCHANGED <<agents, held>>
             ELSE /\ agents' = Append(agents, new_memory(agents))
                  /\ held' = held \cup {Len(agents) + 1}
                  /\ result' = [agent |-> Len(agents) + 1]
                  /\ pc' = "answered"
    /\ UNCHANGED <<refs, net, env_key, ninvoked, nqueries, log>>

\* One call of agent.invoke({"input": query}) on an agent a caller holds:
\* the agent sees its memory as chat_history and, when it answers, the
\* exchange is saved to that memory.
InvokeAgent ==
    /\ pc = "ready"
    /\ Work < MaxWork
    /\ \E i \in held, query \in UserQueries, invoking \in Faults \cup {NoFault},
          output \in Outputs :
          /\ call' = [op |-> "invoke", agent |-> i, query |-> query,
                      invoking |-> invoking, chat_history |-> agents[i]]
          /\ IF invoking = NoFault
             THEN /\ agents' = [agents EXCEPT ![i] = save_context(@, query, output)]
                  /\ log' = Append(log, [agent |-> i, input |-> query,
                                         output |-> output])
                  /\ result' = [has_output |-> TRUE, output |-> output]
                  /\ pc' = "answered"
             ELSE /\ result' = [exception |-> invoking.class]
                  /\ pc' = "raised"
                  /\ UNCHANGED <<agents, log>>
    /\ ninvoked' = ninvoked + 1
    /\ UNCHANGED <<refs, net, env_key, nqueries, held>>

\* process_user_query in a run where callers hold agents too.
SessionQuery == Work < MaxWork /\ ProcessUserQuery

NextSession ==
    \/ Load
    \/ CreateAgent
    \/ InvokeAgent
    \/ SessionQuery
    \/ Return

\* Start-up, process_user_query calls, and callers that build agents with
\* create_duke_agent and invoke them themselves.
SpecSession == InitAgent /\ [][NextSession]_vars

-----------------------------------------------------------------------------
(* Properties of start-up and of the resolvers, checked under SpecResolve. *)

Answered(op) == pc = "answered" /\ call.op = op

Resolvers == {"search_subject_by_code", "search_group_format", "search_category_format"}

\* The reference list a resolver scans.
ListOf(op) ==
    CASE op = "search_group_format" -> valid_groups
      [] op = "search_category_format" -> valid_categories
      [] op = "search_subject_by_code" -> valid_subjects

\* query is a case-insensitive substring of entry
ContainsCI(query, entry) == In(Lower(query), Lower(entry))

NoRepeat(s) == \A i, j \in 1..Len(s) : s[i] = s[j] => i = j

AllWhitespace(s) == \A i \in 1..Len(s) : s[i] \in Whitespace

\* t is s with whitespace (only) cut from both ends, and none left there
Trimmed(s, t) ==
    /\ \E i \in 0..Len(s) : \E j \in i..Len(s) :
          /\ t = SubSeq(s, i + 1, j)
          /\ AllWhitespace(SubSeq(s, 1, i))
          /\ AllWhitespace(SubSeq(s, j + 1, Len(s)))
    /\ t # <<>> => (t[1] \notin Whitespace /\ t[Len(t)] \notin Whitespace)

Loaded == pc # "start" /\ \A k \in Kinds : files[k].exists

ListOfKind(k) ==
    CASE k = "groups" -> valid_groups
      [] k = "categories" -> valid_categories
      [] k = "subjects" -> valid_subjects

\* A subject line has a code part and a description part: the first two
\* pieces of the line cut at " - ", each trimmed.
HasParts(entry) == Len(Split(entry, Sep)) >= 2
CodePart(entry) == Strip(Split(entry, Sep)[1])
NamePart(entry) == Strip(Split(entry, Sep)[2])

\* The subject resolver's looser code test: spaces dropped from the query,
\* spaces and hyphens dropped from the code.
LooseCode(query, entry) ==
    In(Remove(Lower(query), " "), Remove(Remove(Lower(CodePart(entry)), "-"), " "))

Candidate(query, entry) ==
    /\ HasParts(entry)
    /\ \/ ContainsCI(query, CodePart(entry))
       \/ LooseCode(query, entry)
       \/ ContainsCI(query, NamePart(entry))

\* C1 as stated: every entry that contains the query (any case) is among the
\* matches a resolver returns, and the matches are empty when no entry
\* contains the query.
C1_AsStated ==
    \A op \in Resolvers :
        Answered(op) =>
            LET list == ListOf(op)
                q == call.query
            IN  /\ \A i \in 1..Len(list) :
                      ContainsCI(q, list[i]) => list[i] \in Range(result.matches)
                /\ (\A i \in 1..Len(list) : ~ContainsCI(q, list[i]))
                      => result.matches = <<>>

\* C1 as amended: the group and category resolvers return an entry that
\* contains the query (any case) when fewer than 5 entries containing it come
\* before it in the list, and return nothing when no entry contains it; the
\* subject resolver returns an entry that has a " - " separator and contains
\* the query in its code part or its description part when at most 5 entries
\* of the list are candidates, and returns nothing when no entry is a
\* candidate (an entry with a separator whose code part, also with spaces and
\* hyphens ignored, or description part contains the query).
C1_Resolvers ==
    /\ \A op \in {"search_group_format", "search_category_format"} :
          Answered(op) =>
              LET list == ListOf(op)
                  q == call.query
              IN  /\ \A i \in 1..Len(list) :
                        (/\ ContainsCI(q, list[i])
                         /\ Cardinality({j \in 1..(i - 1) : ContainsCI(q, list[j])}) < 5)
                        => list[i] \in Range(result.matches)
                  /\ (\A i \in 1..Len(list) : ~ContainsCI(q, list[i]))
                        => result.matches = <<>>
    /\ Answered("search_subject_by_code") =>
          LET list == valid_subjects
              q == call.query
              cands == {j \in 1..Len(list) : Candidate(q, list[j])}
          IN  /\ \A i \in 1..Len(list) :
                    (/\ HasParts(list[i])
                     /\ \/ ContainsCI(q, CodePart(list[i]))
                        \/ ContainsCI(q, NamePart(list[i]))
                     /\ Cardinality(cands) <= 5)
                    => list[i] \in Range(result.matches)
              /\ cands = {} => result.matches = <<>>

\* C1's case: a resolver answered from a list of 6 entries that all contain
\* the query, and returned the first of them.
C1_Witness ==
    \E op \in Resolvers :
        /\ Answered(op)
        /\ Len(ListOf(op)) = 6
        /\ \A i \in 1..6 : ContainsCI(call.query, ListOf(op)[i])
        /\ call.query # <<>>
        /\ ListOf(op)[1] \in Range(result.matches)

\* C2: the matches a resolver returns are at most 5, and each of them is an
\* entry of the resolver's reference list.
C2_AtMostFiveFromList ==
    \A op \in Resolvers :
        Answered(op) =>
            /\ Len(result.matches) <= 5
            /\ Range(result.matches) \subseteq Range(ListOf(op))

\* C2's case: more than 5 entries match and exactly 5 are returned.
C2_Witness ==
    \E op \in Resolvers :
        /\ Answered(op)
        /\ Len(ListOf(op)) > 5
        /\ \A i \in 1..Len(ListOf(op)) : ContainsCI(call.query, ListOf(op)[i])
        /\ Len(result.matches) = 5

\* C3 as stated: the subject resolver returns the first 5 of the code-matches
\* (in list order) followed by the description-matches that are not
\* code-matches (in list order), and no string appears twice in them.
C3_AsStated ==
    Answered("search_subject_by_code") =>
        LET q == call.query
            cm == SelectSeq(valid_subjects, LAMBDA e : CodeMatch(q, e))
            nm == SelectSeq(valid_subjects,
                            LAMBDA e : NameMatch(q, e) /\ ~CodeMatch(q, e))
        IN  /\ result.matches = Take(cm \o nm, 5)
            /\ NoRepeat(result.matches)

\* C8 as stated: the loaded list is exactly the file's non-empty lines, each
\* trimmed, in file order; no element is the empty string.
C8_AsStated ==
    Loaded =>
        \A k \in Kinds :
            LET list == ListOfKind(k)
                lines == files[k].lines
                kept == SelectSeq(lines, LAMBDA l : ~AllWhitespace(l))
            IN  /\ Len(list) = Len(kept)
                /\ \A i \in 1..Len(list) : Trimmed(kept[i], list[i])
                /\ \A i \in 1..Len(list) : list[i] # <<>>

\* C8 as amended: the loaded list has one element per line of the file, in
\* file order, each the line with its leading and trailing whitespace
\* removed; a blank or whitespace-only line contributes the empty string.
C8_OnePerLineTrimmed ==
    Loaded =>
        \A k \in Kinds :
            LET list == ListOfKind(k)
                lines == files[k].lines
            IN  /\ Len(list) = Len(lines)
                /\ \A i \in 1..Len(list) : Trimmed(lines[i], list[i])
                /\ \A i \in 1..Len(list) : AllWhitespace(lines[i]) => list[i] = <<>>

\* C8's case: a file with a whitespace-only line between other lines was
\* loaded.
C8_Witness ==
    /\ Loaded
    /\ \E k \in Kinds :
          /\ Len(files[k].lines) >= 3
          /\ \E i \in 2..(Len(files[k].lines) - 1) :
                /\ AllWhitespace(files[k].lines[i])
                /\ ~AllWhitespace(files[k].lines[i - 1])
                /\ ~AllWhitespace(files[k].lines[i + 1])
                /\ ListOfKind(k)[i] = <<>>

\* C9: when a reference file is missing, start-up completes with a warning
\* and three empty lists, and every resolver call returns no matches.
C9_MissingFileNoMatches ==
    (\E k \in Kinds : ~files[k].exists) =>
        /\ pc = "start" => ENABLED Load
        /\ pc # "start" =>
              /\ warned
              /\ valid_groups = <<>> /\ valid_categories = <<>> /\ valid_subjects = <<>>
        /\ \A op \in Resolvers : Answered(op) => result.matches = <<>>

\* C9's case: one file is missing, another holds a line that contains the
\* query, and the resolver of that other file has answered.
C9_Witness ==
    /\ ~files["subjects"].exists
    /\ files["groups"].exists
    /\ Answered("search_group_format")
    /\ \E i \in 1..Len(files["groups"].lines) :
          ContainsCI(call.query, Strip(files["groups"].lines[i]))
    /\ result.matches = <<>>

-----------------------------------------------------------------------------
(* Properties of the API clients, checked under SpecApi. *)

Clients == {"get_events_from_duke_api",
            "get_curriculum_with_subject_from_duke_api",
            "get_detailed_course_information_from_duke_api",
            "get_people_information_from_duke_api"}

\* The client op has issued its GET (and, the call being synchronous, has
\* its response).
Requested(op) == call.op = op /\ http.sent

\* How many times the parameter name key occurs in url.
Count(key, url) == Cardinality(Occurs(key, url))

K_gf  == <<"g", "f", "[", "]">>
K_gfu == <<"g", "f", "u", "[", "]">>
K_cf  == <<"c", "f", "[", "]">>
K_cfu == <<"c", "f", "u", "[", "]">>

\* "&key=v1&key=v2...", each value percent-encoded by `encoded`
Repeated(key, values, encoded) ==
    Flatten([i \in 1..Len(values) |-> <<"&">> \o key \o <<"=">> \o encoded[i]])

\* C4: when groups contains "All" the events URL has no gf[] and no gfu[]
\* parameter, and when categories contains "All" it has no cf[] and no cfu[]
\* parameter, whatever the two flags.
C4_AllMeansNoFilter ==
    Requested("get_events_from_duke_api") =>
        /\ All \in Range(call.groups) =>
              Count(K_gf, http.url) = 0 /\ Count(K_gfu, http.url) = 0
        /\ All \in Range(call.categories) =>
              Count(K_cf, http.url) = 0 /\ Count(K_cfu, http.url) = 0

\* C4's case: "All" comes second in groups, after another name, under AND,
\* while the categories are filtered.
C4_Witness ==
    /\ Requested("get_events_from_duke_api")
    /\ Len(call.groups) = 2 /\ call.groups[1] # All /\ call.groups[2] = All
    /\ ~call.filter_method_group
    /\ All \notin Range(call.categories) /\ call.categories # <<>>
    /\ Count(K_cf, http.url) + Count(K_cfu, http.url) > 0

\* The filter parameters of one facet, as C5 states them: n parameters under
\* the key the flag selects, one per entry in list order, none under the
\* other key.
FacetParams(names, flag, orKey, andKey, url) ==
    /\ Count(IF flag THEN orKey ELSE andKey, url) = Len(names)
    /\ Count(IF flag THEN andKey ELSE orKey, url) = 0
    /\ In(Repeated(IF flag THEN orKey ELSE andKey, names,
                   [i \in 1..Len(names) |-> quote(names[i])]), url)

\* C5 as stated: every events call whose groups list does not contain "All"
\* builds a URL with exactly n gfu[] parameters (flag True) or n gf[]
\* parameters (flag False), one per entry in list order, and none of the
\* other key; the same for categories with cfu[] and cf[].
C5_AsStated ==
    (pc \in {"answered", "raised"} /\ call.op = "get_events_from_duke_api") =>
        /\ All \notin Range(call.groups) =>
              /\ http.sent
              /\ FacetParams(call.groups, call.filter_method_group,
                             K_gfu, K_gf, http.url)
        /\ All \notin Range(call.categories) =>
              /\ http.sent
              /\ FacetParams(call.categories, call.filter_method_category,
                             K_cfu, K_cf, http.url)

\* What is left of C5 on the code: the counts hold of every URL the events
\* client does build.
C5_OfBuiltUrls ==
    Requested("get_events_from_duke_api") =>
        /\ All \notin Range(call.groups) =>
              FacetParams(call.groups, call.filter_method_group,
                          K_gfu, K_gf, http.url)
        /\ All \notin Range(call.categories) =>
              FacetParams(call.categories, call.filter_method_category,
                          K_cfu, K_cf, http.url)

\* C6: a client that receives a status other than 200 returns exactly
\* "Failed to fetch data: <status>", whatever the body, and raises nothing.
C6_FailedOnNon200 ==
    \A op \in Clients :
        (Requested(op) /\ http.status # 200) =>
            /\ pc = "answered"
            /\ result = FailedPrefix \o Digits(http.status)

\* C6's case: the curriculum client got a 404 whose body is a JSON list of 6.
C6_Witness ==
    /\ Requested("get_curriculum_with_subject_from_duke_api")
    /\ http.status = 404
    /\ loads(http.body).ok
    /\ Len(loads(http.body).value.items) = 6
    /\ pc = "answered"

\* C7: on a 200 the curriculum client returns {"courses": <the first 5
\* elements, in order>, "note": "Showing 5 out of N ..."} for a JSON list of
\* N > 5 elements, the raw body for any other JSON value, and "Error: Could
\* not parse API response" for a body that is not JSON.
C7_CurriculumOn200 ==
    (Requested("get_curriculum_with_subject_from_duke_api") /\ http.status = 200) =>
        LET data == loads(http.body)
            n == Len(data.value.items)
        IN  /\ (data.ok /\ data.value.t = "list" /\ n > 5) =>
                  \E courses \in {dumps(JList(Take(data.value.items, 5)))} :
                      /\ loads(courses).value.items
                            = [i \in 1..5 |-> data.value.items[i]]
                      /\ result = S_courses_key \o courses \o S_note_key
                                    \o Digits(n) \o S_note_end
            /\ (data.ok /\ ~(data.value.t = "list" /\ n > 5)) => result = http.body
            /\ ~data.ok => result = S_parse_error

\* C7's case: a 200 with a list of 7 mixed elements, answered with the
\* wrapped first 5.
C7_Witness ==
    /\ Requested("get_curriculum_with_subject_from_duke_api")
    /\ http.status = 200
    /\ loads(http.body).ok
    /\ Len(loads(http.body).value.items) = 7
    /\ loads(http.body).value.items[5] # loads(http.body).value.items[6]
    /\ result # http.body
    /\ In(Digits(7), result)

\* The characters that delimit a URL's path segments, query and fragment.
Structural == {"/", "?", "&", "#"}

CharCount(c, s) == Cardinality({i \in 1..Len(s) : s[i] = c})

\* text holds value only behind percent-encoding: it is before \o e \o after
\* for a piece e that has none of the structural characters and no raw
\* character of value outside the letters, digits and "_.-~" (a "%" and two
\* hexadecimal digits stand for every other one).
Unreserved(ch) ==
    ch \in AlwaysSafe
       \cup {"a", "b", "x", "A", "I", "P", "0", "1", "2", "3", "4", "5", "6", "7", "8", "9"}

EncodedPiece(e, value) ==
    /\ \A i \in 1..Len(e) : e[i] \notin Structural
    /\ Len(e) = Len(value)
                  + 2 * Cardinality({i \in 1..Len(value) : ~Unreserved(value[i])})
    /\ CharCount("%", e) = Cardinality({i \in 1..Len(value) : ~Unreserved(value[i])})

\* url keeps the path segments and the query parameters of the URL that the
\* same client builds for a plain value.
SameStructure(url, plain) ==
    \A c \in Structural : CharCount(c, url) = CharCount(c, plain)

Plain == <<"x">>

\* C11: in the curriculum, course-detail and people clients every value of
\* the caller (subject; course_id and course_offer_number; name) is in the
\* request URL percent-encoded, so that a "/", "?", "&" or "#" in it changes
\* neither the URL's path segments nor its query parameters.
C11_AsStated ==
    /\ Requested("get_curriculum_with_subject_from_duke_api") =>
          /\ \E e \in {quote(call.subject)} :
                /\ EncodedPiece(e, call.subject)
                /\ http.url = S_subject_url \o e \o S_token
          /\ SameStructure(http.url, S_subject_url \o Plain \o S_token)
    /\ Requested("get_detailed_course_information_from_duke_api") =>
          /\ \E e \in {quote(call.course_id)}, f \in {quote(call.course_offer_number)} :
                /\ EncodedPiece(e, call.course_id)
                /\ EncodedPiece(f, call.course_offer_number)
                /\ http.url = S_crse_id \o e \o S_crse_offer_nbr \o f \o S_token
          /\ SameStructure(http.url,
                           S_crse_id \o Plain \o S_crse_offer_nbr \o Plain \o S_token)
    /\ Requested("get_people_information_from_duke_api") =>
          /\ \E e \in {quote(call.name)} :
                /\ EncodedPiece(e, call.name)
                /\ http.url = S_people \o e \o S_amp_token
          /\ SameStructure(http.url, S_people \o Plain \o S_amp_token)

\* What does hold of C11: the curriculum and the people client encode their
\* value; the course-detail client puts both of its values in as given.
C11_OfQuotingClients ==
    /\ Requested("get_curriculum_with_subject_from_duke_api") =>
          /\ EncodedPiece(quote(call.subject), call.subject)
          /\ http.url = S_subject_url \o quote(call.subject) \o S_token
          /\ SameStructure(http.url, S_subject_url \o Plain \o S_token)
    /\ Requested("get_people_information_from_duke_api") =>
          /\ EncodedPiece(quote(call.name), call.name)
          /\ http.url = S_people \o quote(call.name) \o S_amp_token
          /\ SameStructure(http.url, S_people \o Plain \o S_amp_token)
    /\ Requested("get_detailed_course_information_from_duke_api") =>
          http.url = S_crse_id \o call.course_id \o S_crse_offer_nbr
                       \o call.course_offer_number \o S_token

\* A step that is one call of an API client.
ClientCall == pc = "ready" /\ call'.op \in Clients

EventsDone == call.op = "get_events_from_duke_api" /\ pc # "ready"

\* C13: in get_events_from_duke_api an empty facet list is handled per
\* facet: groups = [] under AND (filter_method_group = False) fails with an
\* exception before any request is sent; groups = [] under OR, and
\* categories = [] under AND or OR in a call that groups lets through, go on
\* to the request, whose URL has no filter parameter of that facet.
C13_EmptyFacet ==
    EventsDone =>
        /\ (call.groups = <<>> /\ ~call.filter_method_group) =>
              /\ pc = "raised"
              /\ result = [exception |-> "IndexError"]
              /\ ~http.sent
              /\ nsent < ncalls
        /\ (call.groups = <<>> /\ call.filter_method_group) =>
              /\ pc = "answered"
              /\ http.sent
              /\ Count(K_gf, http.url) = 0 /\ Count(K_gfu, http.url) = 0
        /\ (call.categories = <<>>
              /\ ~(call.groups = <<>> /\ ~call.filter_method_group)) =>
              /\ pc = "answered"
              /\ http.sent
              /\ Count(K_cf, http.url) = 0 /\ Count(K_cfu, http.url) = 0

\* C13's case: after a call that was sent, a call with both lists empty and
\* both facets under AND raises, and the requests sent stay at one.
C13_Witness ==
    /\ EventsDone
    /\ call.groups = <<>> /\ ~call.filter_method_group
    /\ call.categories = <<>> /\ ~call.filter_method_category
    /\ pc = "raised"
    /\ ncalls = 2 /\ nsent = 1

\* The other side of C13: categories = [] under AND beside a group filter
\* is sent, with the group parameter and no category parameter.
C13_CategoriesProceed ==
    /\ EventsDone
    /\ call.categories = <<>> /\ ~call.filter_method_category
    /\ Len(call.groups) = 1 /\ ~call.filter_method_group
    /\ pc = "answered" /\ http.sent
    /\ Count(K_gf, http.url) = 1 /\ Count(K_cf, http.url) = 0

-----------------------------------------------------------------------------
(* Properties of process_user_query, checked under SpecAgent. *)

Processed == call.op = "process_user_query" /\ pc # "ready"

\* C10: process_user_query never lets an exception out: a failure while the
\* agent is built (the ValueError of a missing OPENAI_API_KEY included) or
\* while it is invoked comes back as "An error occurred: <message>"; and
\* with no OPENAI_API_KEY no agent is ever built or invoked.
C10_ErrorsComeBackAsText ==
    /\ Processed =>
          /\ pc = "answered"
          /\ KeyMissing(env_key) => result = S_error_occurred \o S_key_not_found
          /\ (~KeyMissing(env_key) /\ call.building # NoFault)
                => result = S_error_occurred \o call.building.message
          /\ (~KeyMissing(env_key) /\ call.building = NoFault /\ call.invoking # NoFault)
                => result = S_error_occurred \o call.invoking.message
    /\ ~env_key.set => (agents = <<>> /\ ninvoked = 0)

\* C10's case: the second query's agent was built and its invocation failed
\* with a message, after a first query that was answered.
C10_Witness ==
    /\ Processed
    /\ nqueries = 2
    /\ Len(agents) = 2 /\ agents[1] # <<>> /\ agents[2] = <<>>
    /\ call.building = NoFault
    /\ call.invoking # NoFault /\ call.invoking.message # <<>>
    /\ result = S_error_occurred \o call.invoking.message

-----------------------------------------------------------------------------
(* Properties of the conversation memory, checked under SpecSession. *)

\* The exchanges that agent i answered, oldest first.
ExchangesOf(i) ==
    LET own == SelectSeq(log, LAMBDA e : e.agent = i)
    IN  [k \in 1..Len(own) |-> [input |-> own[k].input, output |-> own[k].output]]

Invoked == call.op = "invoke" /\ pc # "ready"

\* C14: every process_user_query call builds an agent of its own with an
\* empty memory: the chat history that the k-th query is answered with is
\* empty, so it holds nothing of the queries 1..k-1, and nothing of any
\* other agent.  A history grows only over the invocations of one agent
\* that create_duke_agent returned: each agent's memory is the exchanges
\* that this agent answered, in order, and an invocation sees exactly those
\* answered before it.
C14_FreshMemoryPerQuery ==
    /\ (Processed /\ call.agent # 0) =>
          /\ call.chat_history = <<>>
          /\ call.agent = Len(agents)
          /\ call.agent \notin held
          /\ \A j \in 1..Len(log) : log[j].agent = call.agent => j = Len(log)
    /\ \A i \in 1..Len(agents) :
          /\ agents[i] = ExchangesOf(i)
          /\ i \notin held => Len(agents[i]) <= 1
    /\ Invoked =>
          /\ call.agent \in held
          /\ call.chat_history
                = IF pc = "answered"
                  THEN SubSeq(ExchangesOf(call.agent), 1,
                              Len(ExchangesOf(call.agent)) - 1)
                  ELSE ExchangesOf(call.agent)

\* C14's case: the second query of a run is answered, after an answered
\* first query and an answered invocation of an agent that a caller holds;
\* its chat history is empty and three exchanges are on record.
C14_Witness ==
    /\ Processed
    /\ nqueries = 2
    /\ pc = "answered" /\ call.invoking = NoFault /\ call.agent # 0
    /\ call.chat_history = <<>>
    /\ Len(log) = 3
    /\ \E j \in 1..2 : log[j].agent \in held
    /\ \E j \in 1..2 : log[j].agent \notin held /\ log[j].input # call.query

\* The other side of C14: an agent that a caller holds is invoked a second
\* time, with a query answered by process_user_query in between, and sees
\* its own first exchange only.
C14_HeldAgentAccumulates ==
    /\ Invoked
    /\ pc = "answered"
    /\ Len(log) = 3
    /\ log[1].agent = call.agent /\ log[2].agent # call.agent
    /\ call.chat_history = <<[input |-> log[1].input, output |-> log[1].output]>>
    /\ Len(agents[call.agent]) = 2

====
